---- MODULE Spec2Model ----
(***************************************************************************)
(* A state-machine model of src/assets/image_scraper.py: the retrying      *)
(* fetcher _download_file, the multi-site orchestrator                     *)
(* download_cw3e_westwrf_snow and the command-line entry point main.       *)
(*                                                                         *)
(* Three entry points are explored, chosen in Init:                        *)
(*   "fetch"     a direct call _download_file(url, dest_path, retries=N)   *)
(*   "download"  calls of download_cw3e_westwrf_snow(sites, target_root),  *)
(*               up to MaxRuns in sequence over the same target_root       *)
(*   "main"      one invocation of main() with --sites given or absent     *)
(* The network (what session.get answers), the filesystem (whether a       *)
(* write succeeds) and the wall clock are the environment: each is a       *)
(* nondeterministic choice made when the code reaches it.                  *)
(***************************************************************************)
EXTENDS Integers, Sequences, FiniteSets, TLC

(***************************************************************************)
(* Bounds of the exploration.                                              *)
(***************************************************************************)
\* The SITES table is cut to its first NumSites entries.
NumSites == 3
\* Retry budgets 1..MaxRetries are tried for direct calls of _download_file.
MaxRetries == 3
\* Consecutive runs of the orchestrator over one target_root.
MaxRuns == 2
\* The length, in text atoms, of the --sites argument.
MaxArgLen == 3
\* Clock ticks per second: "%S" is the finest field of the strftime format,
\* so two clock readings within one second format alike.
TicksPerSecond == 2

(***************************************************************************)
(* Program constants.                                                      *)
(***************************************************************************)
\* retries: int = 3, the default every orchestrator call uses.
DefaultRetries == 3
\* response.status_code != 200
HTTP_OK == 200
\* the base of the exponential backoff, 2 ** attempt
BackoffBase == 2

BASE_URL == "https://cw3e.ucsd.edu/images/wwrf/images/ensemble/"

\* The insertion order of the SITES dict.
SiteOrder == <<"paradis", "stevens", "crystal", "snoqualmie", "baker", "white">>

\* A filename is a sequence of text atoms; "." is an atom of its own.
AllSites ==
    [paradis    |-> <<"West-WRF_3hrSnow_Meteogram_Panel_MRNP", ".", "png">>,
     stevens    |-> <<"West-WRF_3hrSnow_Meteogram_Panel_STP", ".", "png">>,
     crystal    |-> <<"West-WRF_3hrSnow_Meteogram_Panel_CMP", ".", "png">>,
     snoqualmie |-> <<"West-WRF_3hrSnow_Meteogram_Panel_SNQ", ".", "png">>,
     baker      |-> <<"West-WRF_3hrSnow_Meteogram_Panel_MTB", ".", "png">>,
     white      |-> <<"West-WRF_3hrSnow_Meteogram_Panel_WHP", ".", "png">>]

Min(a, b) == IF a < b THEN a ELSE b

SiteKeys == SubSeq(SiteOrder, 1, Min(NumSites, Len(SiteOrder)))

SITES == [s \in {SiteKeys[i] : i \in 1..Len(SiteKeys)} |-> AllSites[s]]

(***************************************************************************)
(* Exceptions: a type, a message and the exception it was raised from.     *)
(***************************************************************************)
Exc(type, msg) == [type |-> type, msg |-> msg, cause |-> <<>>]

ExcFrom(type, msg, e) == [type |-> type, msg |-> msg, cause |-> <<e>>]

NoException == Exc("None", <<>>)

(***************************************************************************)
(* The network: what one session.get can do.                               *)
(***************************************************************************)
ImagePrefix == <<"i", "m", "a", "g", "e", "/">>

ImagePng == ImagePrefix \o <<"p", "n", "g">>

TextHtml == <<"t", "e", "x", "t", "/", "h", "t", "m", "l">>

ImageNoSlash == <<"i", "m", "a", "g", "e">>

\* response.content: two byte strings a server can send as the image.
Bodies == {"PNG-A", "PNG-B"}

\* The content of a response that is not an image.
ErrorPage == "<html>"

\* A response's headers: with a Content-Type, or without one.
WithContentType(ct) == [h \in {"Content-Type"} |-> ct]

NoHeaders == [h \in {} |-> <<>>]

Response(status, headers, content) ==
    [raises |-> FALSE, status_code |-> status, headers |-> headers, content |-> content]

\* session.get raising requests.Timeout / ConnectionError (a RequestException).
TransportFailure ==
    [raises |-> TRUE, status_code |-> 0, headers |-> NoHeaders, content |-> ""]

GetOutcomes ==
    {TransportFailure, Response(500, WithContentType(TextHtml), ErrorPage)}
    \cup {Response(HTTP_OK, h, ErrorPage) :
            h \in {WithContentType(TextHtml), WithContentType(ImageNoSlash), NoHeaders}}
    \cup {Response(HTTP_OK, WithContentType(ImagePng), b) : b \in Bodies}

\* dict.get(key, default)
DictGet(d, key, default) == IF key \in DOMAIN d THEN d[key] ELSE default

\* str.startswith(prefix)
StartsWith(s, prefix) ==
    /\ Len(s) >= Len(prefix)
    /\ SubSeq(s, 1, Len(prefix)) = prefix

(***************************************************************************)
(* Paths and filenames.                                                    *)
(***************************************************************************)
\* The index of the last "." of a filename, 0 when it has none.
LastDot(filename) ==
    LET dots == {i \in 1..Len(filename) : filename[i] = "."}
    IN  IF dots = {} THEN 0 ELSE CHOOSE i \in dots : \A j \in dots : j <= i

\* filename.rsplit('.', 1)[0]
BaseName(filename) ==
    IF LastDot(filename) = 0 THEN filename
    ELSE SubSeq(filename, 1, LastDot(filename) - 1)

\* filename.rsplit('.', 1)[1] if '.' in filename else 'png'
Extension(filename) ==
    IF LastDot(filename) = 0 THEN <<"png">>
    ELSE SubSeq(filename, LastDot(filename) + 1, Len(filename))

\* datetime.now().strftime("%Y%m%d_%H%M%S"): the clock cut to whole seconds,
\* as text.
Strftime(clock) == ToString(clock \div TicksPerSecond)

\* Faulty variant of TimestampedFilename: the timestamp is left out of the name.
TimestampedFilenameNoStamp(filename, ts) ==
    BaseName(filename) \o <<"_", ".">> \o Extension(filename)

\* f"{base_name}_{timestamp}.{extension}"
TimestampedFilename(filename, ts) ==
    BaseName(filename) \o <<"_", ts, ".">> \o Extension(filename)

\* target_root / site / name
PathOf(site, name) == [dir |-> site, name |-> name]

CanonicalPath(site) == PathOf(site, SITES[site])

TimestampedPath(site, ts) == PathOf(site, TimestampedFilename(SITES[site], ts))

Url(site) == <<BASE_URL>> \o SITES[site]

(***************************************************************************)
(* The filesystem: files maps each existing path to its content, dirs is   *)
(* the set of existing site directories.  A write_bytes followed by chmod  *)
(* can fail before the file is opened, after it was truncated, or in the   *)
(* chmod after the bytes are in place.                                     *)
(***************************************************************************)
WriteOutcomes == {"ok", "open_fails", "write_fails", "chmod_fails"}

\* The content of a file whose write stopped after the truncating open.
Truncated == ""

Put(fs, path, content) ==
    [q \in DOMAIN fs \cup {path} |-> IF q = path THEN content ELSE fs[q]]

\* Faulty variant of WriteBytes: nothing reaches the disk.
WriteNothing(fs, path, content, outcome) == fs

\* path.write_bytes(content); os.chmod(path, 0o644) under a write outcome.
WriteBytes(fs, path, content, outcome) ==
    CASE outcome = "open_fails"  -> fs
      [] outcome = "write_fails" -> Put(fs, path, Truncated)
      [] OTHER                   -> Put(fs, path, content)

WriteError(path, outcome) == Exc("OSError", <<outcome, path.dir>> \o path.name)

NoFiles == [q \in {} |-> ""]

(***************************************************************************)
(* State.                                                                  *)
(***************************************************************************)
VARIABLES
    entry,          \* which entry point this behaviour explores
    pc,             \* the position of the thread of control
    sites,          \* the keys of the sites dict, in items() order
    idx,            \* the position of the for loop over sites.items()
    retries,        \* _download_file's retries parameter
    call,           \* the url and dest_path of the current _download_file call
    attempt,        \* _download_file's loop variable
    last_exception, \* _download_file's last_exception
    files,          \* the filesystem: path -> content
    dirs,           \* the filesystem: the existing site directories
    session,        \* the requests.Session: "none", "open" or "closed"
    closes,         \* how often session.close() was called in this run
    results,        \* the results dict: site -> canonical path
    outcome,        \* how the entered function ended: "none", "returned", "raised"
    exc,            \* the exception it raised, if any
    runs,           \* orchestrator runs started so far
    now,            \* the wall clock, in ticks
    timestamp,      \* the run's timestamp string
    trace,          \* log: the session.get and time.sleep calls of the current
                    \*      _download_file call, in order
    answer,         \* log: what the latest session.get did
    uniform,        \* log: every session.get of the current call did the same
    before,         \* log: the files as they were when the current call began
    fetched,        \* log: the sites whose _download_file call began in this run
    served,         \* log: site -> the body of the response this run accepted
    history,        \* log: the timestamp and served bodies of each finished run
    args,           \* main: the parsed command line
    invalid_sites,  \* main: the requested names that are not in SITES
    exit_code       \* main: <<>> while running, then <<its return value>>

vars == <<entry, pc, sites, idx, retries, call, attempt, last_exception, files,
          dirs, session, closes, results, outcome, exc, runs, now, timestamp,
          trace, answer, uniform, before, fetched, served, history, args,
          invalid_sites, exit_code>>

\* The entries of trace.
GetCall == [op |-> "get", arg |-> 0]

SleepCall(seconds) == [op |-> "sleep", arg |-> seconds]

NoAnswer == [raises |-> FALSE, status_code |-> 0, headers |-> NoHeaders, content |-> ""]

NoCall == [url |-> <<>>, dest_path |-> PathOf("", <<>>)]

NoResults == [s \in {} |-> PathOf("", <<>>)]

NoServed == [s \in {} |-> ""]

Range(seq) == {seq[i] : i \in 1..Len(seq)}

(***************************************************************************)
(* The command line of main.  The text of --sites is a sequence of atoms:  *)
(* a word, a comma or a blank.                                             *)
(***************************************************************************)
ArgWords == {SiteKeys[i] : i \in 1..Min(2, Len(SiteKeys))} \cup {"bogus"}

ArgAtoms == ArgWords \cup {",", " "}

ArgTexts == UNION {[1..n -> ArgAtoms] : n \in 0..MaxArgLen}

\* --sites absent: args.sites is None.
NoArgs == [cw3e_westwrf_snow |-> FALSE, sites_given |-> FALSE, sites |-> <<>>]

ArgSpace ==
    [cw3e_westwrf_snow : BOOLEAN, sites_given : {TRUE}, sites : ArgTexts]
    \cup [cw3e_westwrf_snow : BOOLEAN, sites_given : {FALSE}, sites : {<<>>}]

\* text.split(','): the pieces between the commas, empty pieces included.
RECURSIVE Split(_)
Split(text) ==
    LET commas == {i \in 1..Len(text) : text[i] = ","}
    IN  IF commas = {} THEN <<text>>
        ELSE LET i == CHOOSE c \in commas : \A d \in commas : c <= d
             IN  <<SubSeq(text, 1, i - 1)>> \o Split(SubSeq(text, i + 1, Len(text)))

\* s.strip(): s without its leading and trailing blanks.
RECURSIVE Strip(_)
Strip(piece) ==
    IF piece = <<>> THEN piece
    ELSE IF Head(piece) = " " THEN Strip(Tail(piece))
    ELSE IF piece[Len(piece)] = " " THEN Strip(SubSeq(piece, 1, Len(piece) - 1))
    ELSE piece

\* [s.strip() for s in args.sites.split(',')] (line 221)
SiteNames(text) == [i \in 1..Len(Split(text)) |-> Strip(Split(text)[i])]

\* name in SITES: the name is one word, and a key of the table.
InSites(name) == Len(name) = 1 /\ name[1] \in DOMAIN SITES

\* The keys of {name: SITES[name] for name in site_names if name in SITES}
\* (line 222): the valid names in the order of their first occurrence.
RECURSIVE SitesDictKeys(_)
SitesDictKeys(names) ==
    IF names = <<>> THEN <<>>
    ELSE LET init == SitesDictKeys(SubSeq(names, 1, Len(names) - 1))
             last == names[Len(names)]
         IN  IF InSites(last) /\ last[1] \notin Range(init)
               THEN Append(init, last[1])
               ELSE init

\* [name for name in site_names if name not in SITES] (line 225)
InvalidSites(names) == SelectSeq(names, LAMBDA name : ~InSites(name))

\* if args.sites: (line 220): None and the empty string are both false.
SitesRequested(a) == a.sites_given /\ a.sites # <<>>

\* A call of _download_file on its own: no session is passed, so it makes one.
InitFetch ==
    /\ entry = "fetch"
    /\ pc = "fetch"
    /\ sites = <<>>
    /\ idx = 0
    /\ retries \in 1..MaxRetries
    /\ \E s \in DOMAIN SITES : call = [url |-> Url(s), dest_path |-> CanonicalPath(s)]
    /\ session = "open"
    /\ runs = 0

\* download_cw3e_westwrf_snow called with a sites dict, or with None for SITES.
InitDownload ==
    /\ entry = "download"
    /\ pc = "start"
    /\ sites \in {SubSeq(SiteKeys, 1, n) : n \in 0..Len(SiteKeys)}
    /\ idx = 0
    /\ retries = DefaultRetries
    /\ call = NoCall
    /\ session = "none"
    /\ runs = 0

\* One invocation of main().
InitMain ==
    /\ entry = "main"
    /\ pc = "main"
    /\ args \in ArgSpace
    /\ sites = <<>>
    /\ idx = 0
    /\ retries = DefaultRetries
    /\ call = NoCall
    /\ session = "none"
    /\ runs = 0

Init ==
    /\ \/ InitFetch /\ args = NoArgs
       \/ InitDownload /\ args = NoArgs
       \/ InitMain
    /\ invalid_sites = <<>>
    /\ exit_code = <<>>
    /\ attempt = 0
    /\ last_exception = NoException
    /\ files = NoFiles
    /\ dirs = {}
    /\ closes = 0
    /\ results = NoResults
    /\ outcome = "none"
    /\ exc = NoException
    /\ now = 0
    /\ timestamp = ""
    /\ trace = <<>>
    /\ answer = NoAnswer
    /\ uniform = TRUE
    /\ before = NoFiles
    /\ fetched = <<>>
    /\ served = NoServed
    /\ history = <<>>

(***************************************************************************)
(* _download_file (lines 36-98).                                           *)
(***************************************************************************)
\* response.status_code != 200 (line 67)
BadStatus(response) == response.status_code # HTTP_OK

\* response.headers.get('Content-Type', '') (line 72)
ContentType(response) == DictGet(response.headers, "Content-Type", <<>>)

\* Faulty variant of BadContentType: the prefix is checked without its slash.
BadContentTypeNoSlash(response) == ~StartsWith(ContentType(response), ImageNoSlash)

\* not content_type.startswith('image/') (line 73)
BadContentType(response) == ~StartsWith(ContentType(response), ImagePrefix)

\* Faulty variant of AttemptError: the response is not validated.
AttemptErrorTransportOnly(url, response) ==
    IF response.raises
      THEN Exc("RequestException", <<"Connection timed out: ">> \o url)
      ELSE NoException

\* The exception one attempt raises inside the try, NoException when it
\* reaches the write (lines 64-76).
AttemptError(url, response) ==
    IF response.raises
      THEN Exc("RequestException", <<"Connection timed out: ">> \o url)
    ELSE IF BadStatus(response)
      THEN Exc("RequestException",
               <<"HTTP ", ToString(response.status_code), ": Failed to download from ">>
               \o url)
    ELSE IF BadContentType(response)
      THEN Exc("ValueError",
               <<"Invalid content type '">> \o ContentType(response)
               \o <<"' for URL ">> \o url \o <<", expected image/*">>)
    ELSE NoException

\* Faulty variant of MoreAttempts: retries counts the retries after the first try.
MoreAttemptsOffByOne(a, n) == a <= n

\* for attempt in range(retries) (line 61): is there another pass?
MoreAttempts(a, n) == a < n

\* Faulty variant of Remember: the first exception is kept.
RememberFirst(previous, e) == IF previous = NoException THEN e ELSE previous

\* last_exception = e (line 89)
Remember(previous, e) == e

\* attempt < retries - 1 (line 91)
SleepsAfter(a, n) == a < n - 1

\* Faulty variant of SleepTime: a constant delay.
SleepTimeConstant(a) == BackoffBase

\* sleep_time = 2 ** attempt (line 93)
SleepTime(a) == BackoffBase ^ a

\* How an exception leaves the function the behaviour entered: a direct call
\* of _download_file ends raised; inside the orchestrator the exception
\* reaches the except clause of line 165, which wraps and re-raises it, and
\* the finally clause of line 170 closes the session.
SiteErrorMessage(site, url, e) ==
    <<"Failed to download image for site '", site, "' from ">> \o url
    \o <<": ">> \o e.msg

\* Faulty variant of Propagate: the orchestrator notes the failure and goes on with
\* the next site.
PropagateAndContinue(e) ==
    IF entry = "fetch"
      THEN /\ pc' = "done"
           /\ outcome' = "raised"
           /\ exc' = e
           /\ UNCHANGED <<session, closes, idx, results>>
      ELSE /\ pc' = "loop"
           /\ idx' = idx + 1
           /\ exc' = e
           /\ UNCHANGED <<outcome, session, closes, results>>

\* Faulty variant of Propagate: a failure of the archive copy is swallowed.
PropagateUnlessArchive(e) ==
    IF pc = "archive"
      THEN /\ pc' = "loop"
           /\ idx' = idx + 1
           /\ UNCHANGED <<outcome, exc, session, closes, results>>
      ELSE /\ pc' = "done"
           /\ outcome' = "raised"
           /\ IF entry = "fetch"
                THEN /\ exc' = e
                     /\ UNCHANGED <<session, closes>>
                ELSE /\ exc' = ExcFrom("Exception",
                                       SiteErrorMessage(sites[idx], call.url, e), e)
                     /\ session' = "closed"
                     /\ closes' = closes + 1
           /\ UNCHANGED <<idx, results>>

\* Faulty variant of Propagate: the orchestrator takes a failure of _download_file
\* as a warning and archives the canonical file that is there.
PropagateThenArchive(e) ==
    IF entry # "fetch" /\ pc = "fetch" /\ call.dest_path \in DOMAIN files
      THEN /\ pc' = "archive"
           /\ UNCHANGED <<outcome, exc, session, closes, idx, results>>
      ELSE /\ pc' = "done"
           /\ outcome' = "raised"
           /\ IF entry = "fetch"
                THEN /\ exc' = e
                     /\ UNCHANGED <<session, closes>>
                ELSE /\ exc' = ExcFrom("Exception",
                                       SiteErrorMessage(sites[idx], call.url, e), e)
                     /\ session' = "closed"
                     /\ closes' = closes + 1
           /\ UNCHANGED <<idx, results>>

\* Faulty variant of Propagate: the session is closed on the return path only.
PropagateWithoutClose(e) ==
    /\ pc' = "done"
    /\ outcome' = "raised"
    /\ exc' = IF entry = "fetch" THEN e
              ELSE ExcFrom("Exception", SiteErrorMessage(sites[idx], call.url, e), e)
    /\ UNCHANGED <<session, closes, idx, results>>

Propagate(e) ==
    /\ pc' = "done"
    /\ outcome' = "raised"
    /\ IF entry = "fetch"
         THEN /\ exc' = e
              /\ UNCHANGED <<session, closes>>
         ELSE /\ exc' = ExcFrom("Exception",
                                SiteErrorMessage(sites[idx], call.url, e), e)
              /\ session' = "closed"
              /\ closes' = closes + 1
    /\ UNCHANGED <<idx, results>>

\* One pass of the for loop of line 61 that fails in the try: the except
\* clause of lines 88-95 remembers the exception and sleeps unless this was
\* the last attempt.
AttemptFails ==
    /\ pc = "fetch"
    /\ MoreAttempts(attempt, retries)
    /\ \E response \in GetOutcomes :
        LET e == AttemptError(call.url, response)
        IN  /\ e # NoException
            /\ answer' = response
            /\ uniform' = (uniform /\ (trace = <<>> \/ answer = response))
            /\ last_exception' = Remember(last_exception, e)
            /\ trace' = IF SleepsAfter(attempt, retries)
                          THEN trace \o <<GetCall, SleepCall(SleepTime(attempt))>>
                          ELSE Append(trace, GetCall)
            /\ attempt' = attempt + 1
    /\ UNCHANGED <<entry, pc, sites, idx, retries, call, files, dirs, session,
                   closes, results, outcome, exc, runs, now, timestamp, before,
                   fetched, served, history,
                   args, invalid_sites, exit_code>>

\* _download_file is left, by return or by an exception: its locals are gone.
PopFrame ==
    /\ attempt' = 0
    /\ last_exception' = NoException

\* Faulty variant of Caught: the except clause takes every exception.
CaughtAnyException(e) == TRUE

\* except (requests.RequestException, ValueError) as e (line 88): an OSError
\* of the write is neither.
Caught(e) == e.type \in {"RequestException", "ValueError"}

\* Faulty variant of ReturnsAfterSave: the loop goes on after the file is saved.
ContinuesAfterSave == FALSE

\* return (line 86)
ReturnsAfterSave == TRUE

\* One pass that gets a 200 image response and writes it (lines 78-86).  When
\* the write went through the function returns; an exception of the write
\* meets the except clause of line 88, which does not catch an OSError, so
\* it leaves the function.
AttemptWrites ==
    /\ pc = "fetch"
    /\ MoreAttempts(attempt, retries)
    /\ \E response \in GetOutcomes, w \in WriteOutcomes :
        LET e == WriteError(call.dest_path, w)
        IN  /\ AttemptError(call.url, response) = NoException
            /\ answer' = response
            /\ uniform' = (uniform /\ (trace = <<>> \/ answer = response))
            /\ dirs' = dirs \cup {call.dest_path.dir}
            /\ files' = WriteBytes(files, call.dest_path, response.content, w)
            /\ IF w = "ok" /\ ReturnsAfterSave
                 THEN /\ trace' = Append(trace, GetCall)
                      /\ served' = IF entry = "fetch" THEN served
                                   ELSE Put(served, sites[idx], response.content)
                      /\ IF entry = "fetch"
                           THEN /\ pc' = "done"
                                /\ outcome' = "returned"
                           ELSE /\ pc' = "archive"
                                /\ outcome' = outcome
                      /\ PopFrame
                      /\ UNCHANGED <<idx, results, exc, session, closes>>
               ELSE IF w = "ok"
                 THEN /\ trace' = Append(trace, GetCall)
                      /\ attempt' = attempt + 1
                      /\ UNCHANGED <<last_exception, served, pc, outcome, idx,
                                     results, exc, session, closes>>
               ELSE IF Caught(e)
                 THEN /\ last_exception' = Remember(last_exception, e)
                      /\ trace' = IF SleepsAfter(attempt, retries)
                                    THEN trace \o <<GetCall, SleepCall(SleepTime(attempt))>>
                                    ELSE Append(trace, GetCall)
                      /\ attempt' = attempt + 1
                      /\ UNCHANGED <<served, pc, outcome, idx, results, exc,
                                     session, closes>>
               ELSE /\ trace' = Append(trace, GetCall)
                    /\ served' = served
                    /\ Propagate(e)
                    /\ PopFrame
    /\ UNCHANGED <<entry, sites, retries, call, runs, now, timestamp, before,
                   fetched, history,
                   args, invalid_sites, exit_code>>

\* raise last_exception (line 98)
AllRetriesFailed ==
    /\ pc = "fetch"
    /\ ~MoreAttempts(attempt, retries)
    /\ Propagate(last_exception)
    /\ PopFrame
    /\ UNCHANGED <<entry, sites, retries, call, files, dirs, runs, now,
                   timestamp, trace, answer, uniform, before, fetched, served,
                   history,
                   args, invalid_sites, exit_code>>

(***************************************************************************)
(* download_cw3e_westwrf_snow (lines 101-174).                             *)
(***************************************************************************)
\* Lines 122-131: a run begins.  The caller runs the orchestrator again
\* after a run that returned; a tick or a whole second has passed since
\* that run began.
StartRun ==
    /\ entry # "fetch"
    /\ \/ pc = "start"
       \/ pc = "done" /\ entry = "download" /\ outcome = "returned"
                      /\ runs < MaxRuns
    /\ \E d \in {1, TicksPerSecond} :
        /\ now' = IF runs = 0 THEN now ELSE now + d
        /\ timestamp' = Strftime(now')
    /\ history' = IF runs = 0 THEN history
                  ELSE Append(history, [timestamp |-> timestamp, served |-> served])
    /\ runs' = runs + 1
    /\ results' = NoResults
    /\ session' = "open"
    /\ closes' = 0
    /\ idx' = 1
    /\ pc' = "loop"
    /\ outcome' = "none"
    /\ exc' = NoException
    /\ fetched' = <<>>
    /\ served' = NoServed
    /\ UNCHANGED <<entry, sites, retries, call, attempt, last_exception, files,
                   dirs, trace, answer, uniform, before,
                   args, invalid_sites, exit_code>>

\* Lines 134-156: the next site's directory and paths, then the call of
\* _download_file.  mkdir and chmod of line 142-143 are outside the inner
\* try: their OSError leaves the run unwrapped, through the finally clause.
BeginSite ==
    /\ pc = "loop"
    /\ idx <= Len(sites)
    /\ \E ok \in BOOLEAN :
        IF ok
          THEN /\ dirs' = dirs \cup {sites[idx]}
               /\ call' = [url |-> Url(sites[idx]),
                           dest_path |-> CanonicalPath(sites[idx])]
               /\ fetched' = Append(fetched, sites[idx])
               /\ before' = files
               /\ pc' = "fetch"
               /\ UNCHANGED <<outcome, exc, session, closes>>
          ELSE /\ pc' = "done"
               /\ outcome' = "raised"
               /\ exc' = Exc("OSError", <<"mkdir", sites[idx]>>)
               /\ session' = "closed"
               /\ closes' = closes + 1
               /\ UNCHANGED <<dirs, call, fetched, before>>
    /\ UNCHANGED <<entry, sites, idx, retries, attempt, last_exception, files,
                   results, runs, now, timestamp, trace, answer, uniform, served,
                   history,
                   args, invalid_sites, exit_code>>

\* Faulty variant of ReadBytes: nothing is read.
ReadNothing(fs, path) == Truncated

\* canonical_path.read_bytes() (line 159)
ReadBytes(fs, path) == fs[path]

\* Faulty variant of Record: the site is not entered.
RecordNothing(res, site, path) == res

\* results[site] = canonical_path (line 163)
Record(res, site, path) == Put(res, site, path)

\* Lines 158-163: the archive copy of the canonical file, then the site's
\* entry in results.  The log of the call that returned is dropped here.
ArchiveCopy ==
    /\ pc = "archive"
    /\ \E w \in WriteOutcomes :
        /\ files' = WriteBytes(files, TimestampedPath(sites[idx], timestamp),
                               ReadBytes(files, call.dest_path), w)
        /\ IF w = "ok"
             THEN /\ results' = Record(results, sites[idx], call.dest_path)
                  /\ idx' = idx + 1
                  /\ pc' = "loop"
                  /\ call' = NoCall
                  /\ UNCHANGED <<outcome, exc, session, closes>>
             ELSE /\ Propagate(WriteError(TimestampedPath(sites[idx], timestamp), w))
                  /\ call' = call
    /\ trace' = <<>>
    /\ answer' = NoAnswer
    /\ uniform' = TRUE
    /\ before' = NoFiles
    /\ UNCHANGED <<entry, sites, retries, attempt, last_exception, dirs, runs,
                   now, timestamp, fetched, served, history,
                   args, invalid_sites, exit_code>>

\* Lines 170-174: the loop is over; close the session and return results.
ReturnResults ==
    /\ pc = "loop"
    /\ idx > Len(sites)
    /\ session' = "closed"
    /\ closes' = closes + 1
    /\ outcome' = "returned"
    /\ pc' = "done"
    /\ UNCHANGED <<entry, sites, idx, retries, call, attempt, last_exception,
                   files, dirs, results, exc, runs, now, timestamp, trace,
                   answer, uniform, before, fetched, served, history,
                   args, invalid_sites, exit_code>>

(***************************************************************************)
(* main (lines 177-256).                                                   *)
(***************************************************************************)
\* Lines 215-238: without --cw3e-westwrf-snow main prints the help and returns
\* 0; with --sites it keeps the names found in SITES and returns 1 when none
\* is left; otherwise it calls download_cw3e_westwrf_snow.
MainParse ==
    /\ pc = "main"
    /\ IF ~args.cw3e_westwrf_snow
         THEN /\ exit_code' = <<0>>
              /\ pc' = "exit"
              /\ UNCHANGED <<sites, invalid_sites>>
         ELSE IF SitesRequested(args)
           THEN /\ sites' = SitesDictKeys(SiteNames(args.sites))
                /\ invalid_sites' = InvalidSites(SiteNames(args.sites))
                /\ IF sites' = <<>>
                     THEN exit_code' = <<1>> /\ pc' = "exit"
                     ELSE exit_code' = exit_code /\ pc' = "start"
           ELSE /\ sites' = SiteKeys
                /\ pc' = "start"
                /\ UNCHANGED <<invalid_sites, exit_code>>
    /\ UNCHANGED <<entry, idx, retries, call, attempt, last_exception, files,
                   dirs, session, closes, results, outcome, exc, runs, now,
                   timestamp, trace, answer, uniform, before, fetched, served,
                   history, args>>

\* Lines 238-252: main returns 0 with the results, 1 when the run raised.
MainReturn ==
    /\ entry = "main"
    /\ pc = "done"
    /\ exit_code' = IF outcome = "returned" THEN <<0>> ELSE <<1>>
    /\ pc' = "exit"
    /\ UNCHANGED <<entry, sites, idx, retries, call, attempt, last_exception,
                   files, dirs, session, closes, results, outcome, exc, runs, now,
                   timestamp, trace, answer, uniform, before, fetched, served,
                   history, args, invalid_sites>>

Next ==
    \/ MainParse
    \/ MainReturn
    \/ AttemptFails
    \/ AttemptWrites
    \/ AllRetriesFailed
    \/ StartRun
    \/ BeginSite
    \/ ArchiveCopy
    \/ ReturnResults

Spec == Init /\ [][Next]_vars

(***************************************************************************)
(* What the claims speak of.                                               *)
(***************************************************************************)
InOrchestrator == entry # "fetch"

\* A run of the orchestrator is over.
RunOver == InOrchestrator /\ runs >= 1 /\ pc \in {"done", "exit"}

\* The exception that ended the _download_file call or the run: inside the
\* orchestrator it is the cause of the Exception of line 168.
FailureCause == IF exc.cause = <<>> THEN exc ELSE exc.cause[1]

\* The current _download_file call used up its retries and raised.
FetchExhausted ==
    /\ outcome = "raised"
    /\ FailureCause.type \in {"RequestException", "ValueError"}

\* The GET requests and the sleeps of a log.
Gets(log) == Cardinality({i \in 1..Len(log) : log[i].op = "get"})

SleepsOf(log) == SelectSeq(log, LAMBDA c : c.op = "sleep")

(***************************************************************************)
(* C1  Failure isolation.                                                  *)
(***************************************************************************)
\* C1, as stated: when the fetch of a target has used up its retries, the
\* run goes on and every target of the run is still fetched.
C1_FailureIsolation ==
    (InOrchestrator /\ FetchExhausted) => fetched = sites

\* C1, amended: a target whose fetch used up its retries ends the run.  A
\* fetched target that is not in results is the last one fetched, and it is
\* either still being processed or the run has raised; when the fetch of
\* target idx is exhausted the run is over with an Exception naming that
\* target, the session closed, exactly the targets up to idx fetched and
\* exactly the targets before idx in results.
C1_FailureAbortsRun ==
    InOrchestrator =>
      /\ \A i \in 1..Len(fetched) :
           fetched[i] \notin DOMAIN results =>
             /\ i = Len(fetched)
             /\ (pc \in {"fetch", "archive"} \/ outcome = "raised")
      /\ FetchExhausted =>
           /\ pc \in {"done", "exit"}
           /\ idx \in 1..Len(sites)
           /\ fetched = SubSeq(sites, 1, idx)
           /\ DOMAIN results = Range(SubSeq(sites, 1, idx - 1))
           /\ exc.type = "Exception"
           /\ exc.msg[2] = sites[idx]
           /\ session = "closed"

\* C1, witness: of three targets the second used up its retries.
C1_Witness ==
    /\ InOrchestrator
    /\ FetchExhausted
    /\ Len(sites) = 3
    /\ idx = 2
    /\ DOMAIN results = {sites[1]}

(***************************************************************************)
(* C2  Report completeness.                                                *)
(***************************************************************************)
\* C2, as stated: whatever the per-target outcomes, the run ends by returning
\* a mapping with exactly one entry per requested target.
C2_ReportComplete ==
    RunOver => (outcome = "returned" /\ DOMAIN results = Range(sites))

\* C2, amended: the run ends either by returning a mapping with exactly one
\* entry per requested target, each the target's canonical path, or by
\* raising at the first target that fails; the mapping then is not returned
\* and holds exactly the targets before the failing one.
C2_ReportCompleteOrRaised ==
    RunOver =>
      \/ /\ outcome = "returned"
         /\ DOMAIN results = Range(sites)
         /\ fetched = sites
         /\ \A s \in DOMAIN results : results[s] = CanonicalPath(s)
      \/ /\ outcome = "raised"
         /\ idx \in 1..Len(sites)
         /\ DOMAIN results = Range(SubSeq(sites, 1, idx - 1))
         /\ sites[idx] \notin DOMAIN results

\* C2, witness: a run over several targets that raised after some succeeded.
C2_Witness ==
    /\ RunOver
    /\ outcome = "raised"
    /\ Len(sites) >= 2
    /\ DOMAIN results # {}

(***************************************************************************)
(* C3  Attempt budget.                                                     *)
(***************************************************************************)
\* C3: a call of _download_file issues at most retries GETs; a call that
\* fails has issued exactly retries GETs and has left every file as it was
\* (the target's canonical file and archive file do not appear); when every
\* response was a 500 and retries GETs are out, the call fails.
C3_AttemptBudget ==
    /\ Gets(trace) <= retries
    /\ FetchExhausted =>
         /\ Gets(trace) = retries
         /\ files = before
         /\ call.dest_path \notin DOMAIN before => call.dest_path \notin DOMAIN files
         /\ InOrchestrator =>
              LET archive == TimestampedPath(sites[idx], timestamp)
              IN  archive \notin DOMAIN before => archive \notin DOMAIN files
    /\ (trace # <<>> /\ uniform /\ ~answer.raises /\ answer.status_code = 500) =>
         /\ files = before
         /\ pc = "fetch" \/ FetchExhausted
         /\ Gets(trace) = retries => (attempt = retries \/ FetchExhausted)

\* C3, witness: a direct call with a budget of at least two whose responses
\* were all 500 has failed.
C3_Witness ==
    /\ entry = "fetch"
    /\ retries >= 2
    /\ FetchExhausted
    /\ uniform
    /\ answer.status_code = 500
    /\ Gets(trace) = retries
    /\ files = NoFiles

(***************************************************************************)
(* C4  Last-error reporting.                                               *)
(***************************************************************************)
\* C4: inside the call last_exception is the error of the latest attempt, and
\* the failure a call raises after its last attempt is the error of that last
\* attempt, with its kind: RequestException for a transport failure or a
\* status other than 200, ValueError for a content type that is no image.
C4_LastErrorReported ==
    /\ (pc = "fetch" /\ attempt > 0) =>
         last_exception = AttemptError(call.url, answer)
    /\ FetchExhausted =>
         /\ FailureCause = AttemptError(call.url, answer)
         /\ FailureCause.type =
              IF answer.raises \/ answer.status_code # 200
                THEN "RequestException" ELSE "ValueError"

\* C4, witness: the attempts of a failed call did not all fail alike, and the
\* last one failed on its content type.
C4_Witness ==
    /\ FetchExhausted
    /\ ~uniform
    /\ ~answer.raises
    /\ answer.status_code = 200
    /\ FailureCause.type = "ValueError"

(***************************************************************************)
(* C5  Backoff schedule.                                                   *)
(***************************************************************************)
\* C5: the log of a call alternates GET and sleep, beginning with a GET; the
\* k-th sleep lasts 2^(k-1) seconds, so the delays grow strictly; each failed
\* attempt but the last is followed by one sleep, and nothing follows the
\* last attempt or a success.
C5_BackoffSchedule ==
    /\ \A i \in 1..Len(trace) :
         IF i % 2 = 1
           THEN trace[i].op = "get"
           ELSE trace[i].op = "sleep" /\ trace[i].arg = 2 ^ ((i \div 2) - 1)
    /\ \A i, j \in 1..Len(SleepsOf(trace)) :
         i < j => SleepsOf(trace)[i].arg < SleepsOf(trace)[j].arg
    /\ (pc = "fetch" /\ attempt < retries) => Len(trace) = 2 * attempt
    /\ (pc = "fetch" /\ attempt = retries) => Len(trace) = 2 * retries - 1
    /\ (pc # "fetch" /\ trace # <<>>) => trace[Len(trace)].op = "get"
    /\ Len(SleepsOf(trace)) <= retries - 1

\* C5, witness: a call that failed twice and then succeeded: 3 GETs, 2 sleeps
\* of 1 and 2 seconds.
C5_Witness ==
    /\ entry = "fetch"
    /\ outcome = "returned"
    /\ Gets(trace) = 3
    /\ SleepsOf(trace) = <<SleepCall(1), SleepCall(2)>>

(***************************************************************************)
(* C6  Content-type validation.                                            *)
(***************************************************************************)
\* A 200 response whose Content-Type is missing or does not begin "image/".
NotAnImage(a) ==
    /\ ~a.raises
    /\ a.status_code = 200
    /\ \/ "Content-Type" \notin DOMAIN a.headers
       \/ ~StartsWith(a.headers["Content-Type"], <<"i", "m", "a", "g", "e", "/">>)

\* C6: a 200 response that is not an image fails its attempt with a
\* ValueError and is retried while attempts are left; a call whose last
\* response was one (so also a call whose every response was one) raises a
\* ValueError, which is not the RequestException of a bad status; such a
\* response changes no file, and no file ever holds its body.
C6_ContentTypeValidated ==
    /\ \A path \in DOMAIN files : files[path] # ErrorPage
    /\ (trace # <<>> /\ NotAnImage(answer)) =>
         /\ files = before
         /\ pc = "fetch" \/ FetchExhausted
         /\ pc = "fetch" =>
              /\ last_exception.type = "ValueError"
              /\ attempt < retries => trace[Len(trace)].op = "sleep"
         /\ FetchExhausted =>
              /\ FailureCause.type = "ValueError"
              /\ Gets(trace) = retries
    /\ (FetchExhausted /\ ~answer.raises /\ answer.status_code # 200) =>
         FailureCause.type = "RequestException"

\* C6, witness: a run in which every response for a target was a 200 without a
\* Content-Type header has ended with that target's fetch failed.
C6_Witness ==
    /\ InOrchestrator
    /\ FetchExhausted
    /\ uniform
    /\ NotAnImage(answer)
    /\ answer.headers = NoHeaders
    /\ FailureCause.type = "ValueError"

(***************************************************************************)
(* C7  Dual write on success.                                              *)
(***************************************************************************)
\* The target's canonical file and this run's archive file both hold body.
BothHold(s, body) ==
    /\ CanonicalPath(s) \in DOMAIN files
    /\ files[CanonicalPath(s)] = body
    /\ TimestampedPath(s, timestamp) \in DOMAIN files
    /\ files[TimestampedPath(s, timestamp)] = body

\* C7, as stated: after the run, every target whose fetch and writes
\* succeeded has both files holding the response body and appears in the
\* result the run returned.
C7_DualWriteAndReported ==
    RunOver =>
      \A s \in DOMAIN results :
        /\ BothHold(s, served[s])
        /\ outcome = "returned"

\* C7, amended: every target whose fetch and writes succeeded has both files
\* holding the bytes of the accepted response body and is entered in results
\* under its canonical path; it appears in the returned mapping when the run
\* returns one, which it does only if no other target of the run fails.
C7_DualWrite ==
    InOrchestrator =>
      /\ \A s \in DOMAIN results :
           /\ s \in DOMAIN served
           /\ served[s] \in Bodies
           /\ BothHold(s, served[s])
           /\ results[s] = CanonicalPath(s)
      /\ (RunOver /\ outcome = "returned") => DOMAIN results = DOMAIN served

\* C7, witness: a run over several targets returned, with different bodies
\* for two of them.
C7_Witness ==
    /\ RunOver
    /\ outcome = "returned"
    /\ Len(sites) >= 2
    /\ served[sites[1]] # served[sites[2]]

(***************************************************************************)
(* C8  Failure of the archive write.                                       *)
(***************************************************************************)
\* The canonical file of s was written in this run, the archive copy was
\* attempted, and s is not in results.
ArchiveFailed(s) ==
    /\ s \in DOMAIN served
    /\ s \notin DOMAIN results
    /\ pc # "archive"

\* C8, as stated: a failed archive write does not end the run, and the
\* remaining targets are still processed.
C8_ArchiveFailureNonFatal ==
    InOrchestrator =>
      \A s \in DOMAIN served :
        ArchiveFailed(s) => (outcome # "raised" /\ (RunOver => fetched = sites))

\* C8, amended: a failed archive write ends the run: it raises an Exception
\* naming the target, caused by the OSError, with the session closed; the
\* target is not entered in results, the targets after it are not fetched,
\* and the canonical file stays with the fetched body.
C8_ArchiveFailureAborts ==
    InOrchestrator =>
      \A s \in DOMAIN served :
        ArchiveFailed(s) =>
          /\ pc \in {"done", "exit"}
          /\ outcome = "raised"
          /\ exc.type = "Exception"
          /\ exc.msg[2] = s
          /\ FailureCause.type = "OSError"
          /\ s = sites[idx]
          /\ fetched = SubSeq(sites, 1, idx)
          /\ session = "closed"
          /\ files[CanonicalPath(s)] = served[s]

\* C8, witness: the archive write of a target failed with targets left.
C8_Witness ==
    /\ RunOver
    /\ idx < Len(sites)
    /\ ArchiveFailed(sites[idx])
    /\ TimestampedPath(sites[idx], timestamp) \notin DOMAIN files

(***************************************************************************)
(* C9  Two runs in sequence.                                               *)
(***************************************************************************)
\* A run returned, after an earlier run that returned.
TwoRunsDone ==
    /\ entry = "download"
    /\ runs >= 2
    /\ pc = "done"
    /\ outcome = "returned"
    /\ sites # <<>>

PreviousRun == history[Len(history)]

\* C9, as stated: after two runs that both succeed the canonical file holds
\* the second body, and there are two distinct archive files, the first
\* holding the first run's body and the second the second run's body.
C9_TwoRunIdempotence ==
    TwoRunsDone =>
      \A s \in Range(sites) :
        /\ files[CanonicalPath(s)] = served[s]
        /\ TimestampedPath(s, PreviousRun.timestamp) # TimestampedPath(s, timestamp)
        /\ files[TimestampedPath(s, PreviousRun.timestamp)] = PreviousRun.served[s]
        /\ files[TimestampedPath(s, timestamp)] = served[s]

\* C9, amended: after two runs that both succeed the canonical file holds the
\* second body and the second run's archive file holds the second body; when
\* the runs began in different seconds the archive files are distinct and the
\* first still holds the first run's body; when they began within the same
\* second they share one archive file, which the second run overwrote.  The
\* target's directory holds the canonical file and one archive file per
\* distinct timestamp.
C9_TwoRunsByTimestamp ==
    TwoRunsDone =>
      \A s \in Range(sites) :
        /\ files[CanonicalPath(s)] = served[s]
        /\ files[TimestampedPath(s, timestamp)] = served[s]
        /\ PreviousRun.timestamp # timestamp =>
             /\ TimestampedPath(s, PreviousRun.timestamp) # TimestampedPath(s, timestamp)
             /\ files[TimestampedPath(s, PreviousRun.timestamp)] = PreviousRun.served[s]
        /\ PreviousRun.timestamp = timestamp =>
             TimestampedPath(s, PreviousRun.timestamp) = TimestampedPath(s, timestamp)
        /\ Cardinality({path \in DOMAIN files : path.dir = s}) =
             1 + Cardinality({h.timestamp : h \in Range(history)} \cup {timestamp})

\* C9, witness: two runs in different seconds, with different bodies.
C9_Witness ==
    /\ TwoRunsDone
    /\ PreviousRun.timestamp # timestamp
    /\ PreviousRun.served[sites[1]] # served[sites[1]]

(***************************************************************************)
(* C10  Target names on the command line.                                  *)
(***************************************************************************)
\* The requested names that are keys of SITES.
ValidRequested ==
    {name[1] : name \in {n \in Range(SiteNames(args.sites)) :
                            Len(n) = 1 /\ n[1] \in DOMAIN SITES}}

\* Nothing of a run has happened.
NothingAttempted ==
    /\ runs = 0
    /\ fetched = <<>>
    /\ trace = <<>>
    /\ session = "none"
    /\ dirs = {}
    /\ files = NoFiles

\* C10, as stated: with --sites given, the run is over exactly the valid
\* names; when no name is valid main returns 1 and nothing is attempted.
C10_NameFiltering ==
    (entry = "main" /\ args.cw3e_westwrf_snow /\ args.sites_given /\ pc # "main") =>
      IF ValidRequested = {}
        THEN pc = "exit" /\ exit_code = <<1>> /\ NothingAttempted
        ELSE Range(sites) = ValidRequested

\* C10, for a --sites text that is not empty: the statement above holds.
C10_NameFilteringOfText ==
    (entry = "main" /\ args.cw3e_westwrf_snow /\ args.sites_given
       /\ args.sites # <<>> /\ pc # "main") =>
      IF ValidRequested = {}
        THEN pc = "exit" /\ exit_code = <<1>> /\ NothingAttempted
        ELSE Range(sites) = ValidRequested

(***************************************************************************)
(* C11  Write errors are not retried.                                      *)
(***************************************************************************)
\* A response the validation of lines 67-76 accepts, told from the response
\* itself.
ValidImage(a) ==
    /\ ~a.raises
    /\ a.status_code = 200
    /\ "Content-Type" \in DOMAIN a.headers
    /\ StartsWith(a.headers["Content-Type"], <<"i", "m", "a", "g", "e", "/">>)

\* The write of the canonical file failed and ended the call.
CanonicalWriteFailed ==
    /\ outcome = "raised"
    /\ \E w \in WriteOutcomes \ {"ok"} : FailureCause = WriteError(call.dest_path, w)

\* C11: a failed write of the canonical file is never taken for a failed
\* attempt: inside the retry loop no OSError is remembered and no file has
\* been written; the failure ends the call at once, the GET of the valid
\* response being the last call made, with attempts of the budget possibly
\* left, and the OSError of the write is what the call raised (inside the
\* orchestrator, the cause and the text of the site's Exception).
C11_WriteErrorNotRetried ==
    /\ pc = "fetch" =>
         /\ last_exception.type # "OSError"
         /\ files = before
    /\ CanonicalWriteFailed =>
         /\ pc \in {"done", "exit"}
         /\ ValidImage(answer)
         /\ trace # <<>>
         /\ trace[Len(trace)] = GetCall
         /\ Gets(trace) <= retries
         /\ Len(SleepsOf(trace)) = Gets(trace) - 1
         /\ FailureCause.type = "OSError"
         /\ InOrchestrator =>
              /\ exc.type = "Exception"
              /\ exc.msg = SiteErrorMessage(sites[idx], call.url, FailureCause)
              /\ sites[idx] \notin DOMAIN results

\* C11, witness: the canonical write failed on the first attempt of a
\* budget of three, inside a run.
C11_Witness ==
    /\ InOrchestrator
    /\ CanonicalWriteFailed
    /\ Gets(trace) = 1
    /\ retries = 3

(***************************************************************************)
(* C12  The filesystem effect of _download_file.                           *)
(***************************************************************************)
\* The current call of _download_file has returned.
FetchReturned ==
    \/ entry = "fetch" /\ outcome = "returned"
    \/ InOrchestrator /\ pc = "archive"

\* C12, as stated: whatever the outcome of a call of _download_file, the
\* files are after the call what they were before it.
C12_FetchNoFilesystemEffect ==
    (FetchReturned \/ FetchExhausted \/ CanonicalWriteFailed) => files = before

\* C12, amended: _download_file writes its destination.  A call that
\* returned has made the destination's directory and left the destination
\* holding the body of the accepted response, every other file as it was; a
\* call that used up its attempts has changed nothing; a call ended by a
\* write error has changed at most the destination.
C12_FetchWritesDestination ==
    /\ FetchReturned =>
         /\ ValidImage(answer)
         /\ files = Put(before, call.dest_path, answer.content)
         /\ call.dest_path.dir \in dirs
    /\ FetchExhausted => files = before
    /\ CanonicalWriteFailed =>
         /\ DOMAIN before \subseteq DOMAIN files
         /\ DOMAIN files \subseteq DOMAIN before \cup {call.dest_path}
         /\ \A q \in DOMAIN before : q # call.dest_path => files[q] = before[q]

\* C12, witness: a call inside a second run has returned and replaced the
\* canonical file of the first run by a different body.
C12_Witness ==
    /\ InOrchestrator
    /\ pc = "archive"
    /\ call.dest_path \in DOMAIN before
    /\ files[call.dest_path] # before[call.dest_path]

(***************************************************************************)
(* C13  Early termination on success.                                      *)
(***************************************************************************)
\* C13: once an attempt got a 200 response with an image content type the
\* call is out of its retry loop: the GET of that attempt is the last call
\* of the log, no sleep follows it, and the sleeps of the log are those of
\* the failed attempts before it.
C13_EarlyTermination ==
    (trace # <<>> /\ ValidImage(answer)) =>
      /\ pc # "fetch"
      /\ trace[Len(trace)] = GetCall
      /\ Len(SleepsOf(trace)) = Gets(trace) - 1
      /\ Gets(trace) <= retries

\* C13, witness: a direct call with a budget of three returned after its
\* second attempt.
C13_Witness ==
    /\ entry = "fetch"
    /\ retries = 3
    /\ outcome = "returned"
    /\ Gets(trace) = 2
    /\ files[call.dest_path] = answer.content

(***************************************************************************)
(* C14  Write ordering per target.                                         *)
(***************************************************************************)
\* This run has created or rewritten the archive file of site s: its archive
\* copy went through, or failed after the file was opened.
ArchiveCreated(s) ==
    \/ s \in DOMAIN results
    \/ /\ outcome = "raised"
       /\ \E w \in {"write_fails", "chmod_fails"} :
            FailureCause = WriteError(TimestampedPath(s, timestamp), w)

\* The call of _download_file for site s, the latest of the run, failed.
FetchFailedFor(s) ==
    /\ fetched # <<>>
    /\ fetched[Len(fetched)] = s
    /\ FetchExhausted \/ CanonicalWriteFailed

\* C14, as stated: the archive file of a target is written after its
\* canonical write succeeded; an archive file this run created goes with a
\* canonical file of the same bytes; a target whose fetch or canonical write
\* failed gets no archive file from the run.
C14_WriteOrdering ==
    InOrchestrator =>
      \A s \in Range(sites) :
        /\ ArchiveCreated(s) =>
             /\ s \in DOMAIN served
             /\ CanonicalPath(s) \in DOMAIN files
             /\ TimestampedPath(s, timestamp) \in DOMAIN files
             /\ files[TimestampedPath(s, timestamp)] = files[CanonicalPath(s)]
        /\ FetchFailedFor(s) => ~ArchiveCreated(s)

\* C14, amended: as stated, but the bytes are the same only when the archive
\* write went through to its end; an archive write that fails after the
\* file was opened leaves an empty archive file next to the complete
\* canonical file.  A target whose call failed has no archive file from the
\* run: an archive file of its name is one the call found.
C14_WriteOrderingCompleted ==
    InOrchestrator =>
      \A s \in Range(sites) :
        /\ pc = "archive" /\ sites[idx] = s => s \in DOMAIN served
        /\ ArchiveCreated(s) =>
             /\ s \in DOMAIN served
             /\ CanonicalPath(s) \in DOMAIN files
             /\ files[CanonicalPath(s)] = served[s]
             /\ TimestampedPath(s, timestamp) \in DOMAIN files
             /\ files[TimestampedPath(s, timestamp)] \in {served[s], Truncated}
             /\ files[TimestampedPath(s, timestamp)] = Truncated =>
                  FailureCause = WriteError(TimestampedPath(s, timestamp), "write_fails")
             /\ s \in DOMAIN results =>
                  files[TimestampedPath(s, timestamp)] = files[CanonicalPath(s)]
        /\ FetchFailedFor(s) =>
             /\ ~ArchiveCreated(s)
             /\ s \notin DOMAIN served
             /\ TimestampedPath(s, timestamp) \in DOMAIN files =>
                  /\ TimestampedPath(s, timestamp) \in DOMAIN before
                  /\ files[TimestampedPath(s, timestamp)]
                       = before[TimestampedPath(s, timestamp)]

\* C14, witness: a run has entered a target with both files in place and
\* then failed at the fetch of the next target.
C14_Witness ==
    /\ InOrchestrator
    /\ DOMAIN results # {}
    /\ \E s \in DOMAIN results : BothHold(s, served[s])
    /\ \E s \in Range(sites) : FetchFailedFor(s) /\ FetchExhausted

(***************************************************************************)
(* C15  A failed fetch preserves the previous canonical copy.              *)
(***************************************************************************)
\* C15: while every response of a call was the same invalid one, no file
\* has changed and the call is in its loop or has failed; a call that used
\* up its attempts when a canonical file was there from an earlier run has
\* left that file with its content, has added no file to the target's
\* directory, and the run has served and entered nothing for the target.
C15_FailedFetchPreservesCanonical ==
    /\ (trace # <<>> /\ uniform /\ ~ValidImage(answer)) =>
         /\ files = before
         /\ pc = "fetch" \/ FetchExhausted
    /\ (FetchExhausted /\ call.dest_path \in DOMAIN before) =>
         /\ call.dest_path \in DOMAIN files
         /\ files[call.dest_path] = before[call.dest_path]
         /\ \A q \in DOMAIN files :
              q.dir = call.dest_path.dir => q \in DOMAIN before
         /\ InOrchestrator =>
              /\ sites[idx] \notin DOMAIN served
              /\ sites[idx] \notin DOMAIN results

\* C15, witness: in a second run the fetch of a target failed on a bad
\* status every time, and the canonical file of the first run is there.
C15_Witness ==
    /\ InOrchestrator
    /\ runs = 2
    /\ FetchExhausted
    /\ uniform
    /\ answer.status_code = 500
    /\ call.dest_path \in DOMAIN files
    /\ files[call.dest_path] = history[1].served[sites[idx]]

(***************************************************************************)
(* C16  Session lifecycle.                                                 *)
(***************************************************************************)
\* C16: the session of a run is open while the run goes on and closed, by
\* exactly one close, when the run is over, whether it returned or raised;
\* no GET is made on a closed session.
C16_SessionLifecycle ==
    InOrchestrator =>
      /\ closes <= 1
      /\ RunOver => (session = "closed" /\ closes = 1)
      /\ (runs >= 1 /\ ~RunOver) => (session = "open" /\ closes = 0)
      /\ pc = "fetch" => session = "open"
      /\ session = "closed" => pc \in {"done", "exit"}

\* C16, witness: a run that entered a target and then raised for a failed
\* fetch has closed its session once.
C16_Witness ==
    /\ RunOver
    /\ FetchExhausted
    /\ DOMAIN results # {}
    /\ session = "closed"
    /\ closes = 1

====
